---- MODULE Spec2Model ----
(***************************************************************************)
(* repobo / repoborunner: full and incremental backups of a blobstorage    *)
(* directory into a repository of tar archives, point-in-time restore,     *)
(* and retention (cleanup) by modification time.                           *)
(*                                                                         *)
(* A path is a sequence of name components (<<"d","x">> is d/x); a tree is *)
(* the set of paths below a root.  A repository file is a record           *)
(*   [root, ext, mtime, names]                                             *)
(* whose name is root ++ ext, root being the fields of the timestamp, and  *)
(* names the member names of the tar archive.                              *)
(***************************************************************************)
EXTENDS FiniteSets, Integers, Sequences, TLC

VARIABLES
    now,        \* wall clock, in instants; Gran instants make one second
    blob,       \* options.blob: the source blobstorage tree
    repo,       \* options.repository: the files of the repository directory
    output,     \* options.output: the tree of the restore destination, as the last restore left it
    ret,        \* the last invocation and how it ended
    taken,      \* per second, the source tree (in a set) at the last backup run that ended without error
    pc,         \* per repobo process that runs step by step, where it is in do_backup and what it holds
    run         \* where the runner (backup_main, snapshot_main) is, and what it holds

vars == <<now, blob, repo, output, ret, taken, pc, run>>

-----------------------------------------------------------------------------
(* Bounds *)

MaxNow == 4         \* the clock stops here
MaxNowKeepAll == 3  \* the clock stops here where restores run too (SpecKeepAll)
Gran == 2           \* instants per second: file mtimes are finer than file names
Base == 2           \* values of one timestamp field
MaxKeep == 2        \* largest keep given to cleanup
MaxFiles == 3       \* files of an arbitrary repository (SpecAny)
MaxStamp == 2       \* latest second in the file names of an arbitrary repository (SpecAny)
MaxMtime == 2       \* modification times of an arbitrary repository (SpecAny)

-----------------------------------------------------------------------------
(* Paths and trees *)

Paths == {<<"d">>, <<"d", "x">>}

\* the entries that are directories; every other entry is a regular file
Dirs == {<<"d">>}

dirname(p) == SubSeq(p, 1, Len(p) - 1)

Trees == {t \in SUBSET Paths : \A p \in t : Len(p) > 1 => dirname(p) \in t \cap Dirs}

isdir(base, prefix) == prefix = <<>> \/ (prefix \in base /\ prefix \in Dirs)

listdir(base, prefix) == {p \in base : Len(p) = Len(prefix) + 1 /\ dirname(p) = prefix}

RECURSIVE listd(_, _)
listd(base, prefix) ==
    (IF prefix # <<>> THEN {prefix} ELSE {})
    \cup (IF isdir(base, prefix)
          THEN UNION {listd(base, i) : i \in listdir(base, prefix)}
          ELSE {})

tar_add_flat(base, item) == {item}

\* TarFile.add(name, arcname): the entry and, recursively, what is below it
tar_add(base, item) == listd(base, item)

RECURSIVE ancestors(_)
ancestors(p) == IF Len(p) <= 1 THEN {} ELSE {dirname(p)} \cup ancestors(dirname(p))

\* TarFile.extractall(path): every member, and the directories leading to it
extractall(tree, names) == tree \cup names \cup UNION {ancestors(p) : p \in names}

-----------------------------------------------------------------------------
(* File names *)

FULL == ".blobs"
DELTA == ".deltablobs"

NoDate == <<>>

second(t) == t \div Gran

\* time.gmtime(): the fields of a time in seconds, most significant first
gmtime(sec) == <<sec \div Base, sec % Base>>

gen_filename(t) == gmtime(second(t))

is_data_file(f) == Len(f.root) = 2 /\ f.ext \in {FULL, DELTA}

\* str <= str on timestamps: field by field, a proper prefix sorts first
RECURSIVE StrLess(_, _)
StrLess(a, b) ==
    IF b = <<>> THEN FALSE
    ELSE IF a = <<>> THEN TRUE
    ELSE IF Head(a) # Head(b) THEN Head(a) < Head(b)
    ELSE StrLess(Tail(a), Tail(b))

StrLeq(a, b) == a = b \/ StrLess(a, b)

\* list.sort() on the file names: the roots have one width, '.blobs' < '.deltablobs'
NameLess(f, g) ==
    \/ StrLess(f.root, g.root)
    \/ f.root = g.root /\ f.ext = FULL /\ g.ext = DELTA

SameName(f, g) == f.root = g.root /\ f.ext = g.ext

exists_unchecked(files, root, ext) == FALSE

\* os.path.exists(dest)
exists(files, root, ext) == \E f \in files : f.root = root /\ f.ext = ext

-----------------------------------------------------------------------------
(* Chain resolver *)

newest(files) == CHOOSE f \in files : \A g \in files : g = f \/ NameLess(g, f)

\* the for loop of find_files over the names, newest first
RECURSIVE needed_no_break(_, _)
needed_no_break(all, when) ==
    IF all = {} THEN <<>>
    ELSE LET fname == newest(all) IN
         IF StrLeq(fname.root, when)
         THEN <<fname>> \o needed_no_break(all \ {fname}, when)
         ELSE needed_no_break(all \ {fname}, when)

RECURSIVE needed(_, _)
needed(all, when) ==
    IF all = {} THEN <<>>
    ELSE LET fname == newest(all) IN
         IF StrLeq(fname.root, when)
         THEN IF fname.ext = FULL
              THEN <<fname>>
              ELSE <<fname>> \o needed(all \ {fname}, when)
         ELSE needed(all \ {fname}, when)

reverse_not(s) == s

\* needed.reverse(): restore back to chronological order
reverse(s) == [i \in 1..Len(s) |-> s[Len(s) + 1 - i]]

find_files(files, date, t) ==
    LET when == IF date = NoDate THEN gen_filename(t) ELSE date
        all == {f \in files : is_data_file(f)}
    IN reverse(needed(all, when))

Range(s) == {s[i] : i \in 1..Len(s)}

concat(files) == UNION {f.names : f \in Range(files)}

-----------------------------------------------------------------------------
(* Backup *)

delete_old_full_backups(files) ==
    LET all == {f \in files : is_data_file(f)}
        full == {f \in all : f.ext = FULL}
    IN IF full = {} THEN files
       ELSE files \ (full \ {newest(full)})

delete_old_backups(files) ==
    LET all == {f \in files : is_data_file(f)}
        full == {f \in all : f.ext = FULL}
        deletable == {f \in all : f.ext \in {FULL, DELTA}}
    IN IF full = {} THEN files
       ELSE files \ (deletable \ {newest(full)})

Ret(op, result) == [op |-> op, result |-> result]

BackupOk == {"full", "incremental", "nothing"}

\* taken is kept only where a specification starts it as a record of the seconds
Taken(result) ==
    IF result \in BackupOk /\ second(now) \in DOMAIN taken
    THEN [taken EXCEPT ![second(now)] = {blob}]
    ELSE taken

\* tarfile.open(dest, 'w:') ... fs.close(): the file is created, or written over
tarfile_open_w(files, fs) ==
    {f \in files : ~SameName(f, fs)} \cup {fs}

do_full_backup(killold) ==
    LET root == gen_filename(now)
        fs == UNION {tar_add(blob, item) : item \in listdir(blob, <<>>)}
        written == tarfile_open_w(repo, [root |-> root, ext |-> FULL, mtime |-> now, names |-> fs])
    IN IF exists(repo, root, FULL)
       THEN /\ repo' = repo
            /\ ret' = Ret("backup", "WouldOverwriteFiles")
            /\ taken' = Taken("WouldOverwriteFiles")
       ELSE /\ repo' = IF killold THEN delete_old_backups(written) ELSE written
            /\ ret' = Ret("backup", "full")
            /\ taken' = Taken("full")

do_incremental_backup(killold, delta) ==
    LET root == gen_filename(now)
        fs == UNION {tar_add(blob, item) : item \in delta}
    IN IF exists(repo, root, DELTA)
       THEN /\ repo' = repo
            /\ ret' = Ret("backup", "WouldOverwriteFiles")
            /\ taken' = Taken("WouldOverwriteFiles")
       ELSE /\ repo' = tarfile_open_w(repo, [root |-> root, ext |-> DELTA, mtime |-> now, names |-> fs])
            /\ ret' = Ret("backup", "incremental")
            /\ taken' = Taken("incremental")

\* a list of names never equals a set of names
nothing_changed_list(backupfiles, blobfiles) == FALSE

\* Has nothing changed?
nothing_changed(backupfiles, blobfiles) == backupfiles = blobfiles

\* Has the file shrunk, probably because of a pack?
has_shrunk(backupfiles, blobfiles) == ~(backupfiles \subseteq blobfiles)

do_backup(full, killold) ==
    LET repofiles == find_files(repo, NoDate, now)
        blobfiles == listd(blob, <<>>)
        backupfiles == concat(repofiles)
    IN /\ IF full \/ repofiles = <<>>
          THEN do_full_backup(killold)
          ELSE IF nothing_changed(backupfiles, blobfiles)
          THEN /\ repo' = repo
               /\ ret' = Ret("backup", "nothing")
               /\ taken' = Taken("nothing")
          ELSE IF has_shrunk(backupfiles, blobfiles)
          THEN do_full_backup(killold)
          ELSE do_incremental_backup(killold, blobfiles \ backupfiles)
       /\ UNCHANGED <<now, blob, output>>

-----------------------------------------------------------------------------
(* Restore *)

no_files_unchecked(repofiles) == FALSE

\* if not repofiles: raise NoFiles
no_files(repofiles) == repofiles = <<>>

\* dir is what the directory given as --output holds when the restore starts;
\* whether that directory is the source blobstorage is the caller's matter
do_recover(date, out, dir) ==
    LET repofiles == find_files(repo, date, now)
        blobfiles == listd(dir, <<>>)
        backupfiles == concat(repofiles)
        extracted == extractall(dir, backupfiles)
        oldblobs == blobfiles \ backupfiles
    IN /\ IF no_files(repofiles)
          THEN /\ output' = dir
               /\ ret' = Ret("recover", "NoFiles")
          ELSE IF ~out
          THEN /\ output' = dir
               /\ ret' = Ret("recover", "no_output")
          ELSE IF oldblobs \cap Dirs = {}
          THEN /\ output' = extracted \ oldblobs
               /\ ret' = Ret("recover", "recovered")
          \* os.remove of a directory raises OSError; the entries the loop
          \* reached before it are gone
          ELSE /\ \E removed \in SUBSET (oldblobs \ Dirs) : output' = extracted \ removed
               /\ ret' = Ret("recover", "OSError")
       /\ UNCHANGED <<now, repo, taken>>

-----------------------------------------------------------------------------
(* Retention *)

endswith_blobs(f) == f.ext = FULL

\* sorted(fullbackups, key=itemgetter(1)) followed by reverse(): the
\* modification times of the full backups, newest first
RECURSIVE newest_first(_)
newest_first(files) ==
    IF files = {} THEN <<>>
    ELSE LET f == CHOOSE f \in files : \A g \in files : g.mtime <= f.mtime
         IN <<f.mtime>> \o newest_first(files \ {f})

oldest_backup_to_keep_off_by_one(fullbackups, num_backups) ==
    newest_first(fullbackups)[num_backups + 1]

\* fullbackups[(num_backups - 1)] of the reversed list
oldest_backup_to_keep(fullbackups, num_backups) == newest_first(fullbackups)[num_backups]

is_outdated_or_equal(modtime, last_date_to_keep) == modtime <= last_date_to_keep

is_outdated(modtime, last_date_to_keep) == modtime < last_date_to_keep

older_backups_at_keep(fullbackups, num_backups) ==
    Cardinality(fullbackups) >= num_backups /\ num_backups # 0

\* if len(fullbackups) > num_backups and num_backups != 0: there are older
\* backups that we can remove
older_backups(fullbackups, num_backups) ==
    Cardinality(fullbackups) > num_backups /\ num_backups # 0

cleanup(keep) ==
    LET fullbackups == {f \in repo : endswith_blobs(f)}
        num_backups == keep
        last_date_to_keep == oldest_backup_to_keep(fullbackups, num_backups)
    IN /\ IF keep = 0
          THEN /\ repo' = repo
               /\ ret' = Ret("cleanup", "kept")
          ELSE IF older_backups(fullbackups, num_backups)
          THEN /\ repo' = {f \in repo : ~is_outdated(f.mtime, last_date_to_keep)}
               /\ ret' = Ret("cleanup", "removed")
          ELSE /\ repo' = repo
               /\ ret' = Ret("cleanup", "kept")
       /\ UNCHANGED <<now, blob, output, taken>>

-----------------------------------------------------------------------------
(* Environment *)

\* time passes
TickTo(limit) ==
    /\ now < limit
    /\ now' = now + 1
    /\ UNCHANGED <<blob, repo, output, ret, taken, pc, run>>

Tick == TickTo(MaxNow)

TickKeepAll == TickTo(MaxNowKeepAll)

\* the application adds or removes blobs
WriteBlobs ==
    /\ \E t \in Trees \ {blob} : blob' = t
    /\ ret' = Ret("write", "blob")
    /\ UNCHANGED <<now, repo, output, taken, pc, run>>

-----------------------------------------------------------------------------
(* Processes *)

\* the repobo processes that run step by step
Procs == {1, 2}

Idle == [at |-> "idle", full |-> FALSE, killold |-> FALSE, ext |-> FULL,
         delta |-> {}, dest |-> NoDate, result |-> "none"]

NoProcess == [p \in Procs |-> Idle]

NotRunning == [at |-> "idle", keep |-> 0, repobo |-> "none", result |-> 0]

-----------------------------------------------------------------------------
(* repobo --backup, step by step: what another process can run in between *)

\* do_backup up to the call of do_full_backup or do_incremental_backup
repobo_do_backup(p, full, killold) ==
    LET repofiles == find_files(repo, NoDate, now)
        blobfiles == listd(blob, <<>>)
        backupfiles == concat(repofiles)
        plan(ext, delta) == [pc EXCEPT ![p] = [at |-> "exists", full |-> full, killold |-> killold,
                                               ext |-> ext, delta |-> delta, dest |-> NoDate,
                                               result |-> "none"]]
    IN /\ pc[p].at = "idle"
       /\ IF full \/ repofiles = <<>>
          THEN pc' = plan(FULL, {})
          ELSE IF nothing_changed(backupfiles, blobfiles)
          THEN pc' = [pc EXCEPT ![p].at = "done", ![p].result = "nothing"]
          ELSE IF has_shrunk(backupfiles, blobfiles)
          THEN pc' = plan(FULL, {})
          ELSE pc' = plan(DELTA, blobfiles \ backupfiles)
       /\ ret' = Ret("backup", "planned")
       /\ UNCHANGED <<now, blob, repo, output, taken, run>>

\* dest = ... gen_filename(options); if os.path.exists(dest): raise WouldOverwriteFiles
repobo_exists(p) ==
    LET root == gen_filename(now) IN
    /\ pc[p].at = "exists"
    /\ IF exists(repo, root, pc[p].ext)
       THEN /\ pc' = [pc EXCEPT ![p].at = "done", ![p].dest = root,
                                ![p].result = "WouldOverwriteFiles"]
            /\ ret' = Ret("backup", "WouldOverwriteFiles")
       ELSE /\ pc' = [pc EXCEPT ![p].at = "open", ![p].dest = root]
            /\ ret' = Ret("backup", "checked")
    /\ UNCHANGED <<now, blob, repo, output, taken, run>>

\* fs = tarfile.open(dest, 'w:'); fs.add(...) for every item; fs.close()
repobo_tarfile_open(p) ==
    LET items == IF pc[p].ext = FULL THEN listdir(blob, <<>>) ELSE pc[p].delta
        fs == UNION {tar_add(blob, item) : item \in items}
        result == IF pc[p].ext = FULL THEN "full" ELSE "incremental"
    IN /\ pc[p].at = "open"
       /\ repo' = tarfile_open_w(repo, [root |-> pc[p].dest, ext |-> pc[p].ext,
                                        mtime |-> now, names |-> fs])
       /\ pc' = [pc EXCEPT ![p].at = IF pc[p].ext = FULL /\ pc[p].killold THEN "killold" ELSE "done",
                           ![p].result = result]
       /\ ret' = Ret("backup", result)
       /\ UNCHANGED <<now, blob, output, taken, run>>

\* if options.killold: delete_old_backups(options)
repobo_delete_old_backups(p) ==
    /\ pc[p].at = "killold"
    /\ repo' = delete_old_backups(repo)
    /\ pc' = [pc EXCEPT ![p].at = "done"]
    /\ UNCHANGED <<now, blob, output, ret, taken, run>>

-----------------------------------------------------------------------------
(* The runner: bin/backup and bin/snapshotbackup *)

\* os.system(...): the exit status of repobo, which main sets to 1 on WouldOverwriteFiles
os_system(result) == IF result = "WouldOverwriteFiles" THEN 1 ELSE 0

failed_never(result) == FALSE

\* if result: ... return result
failed(result) == result # 0

\* result = os.system(repobo --backup ...) and the test of the result; the
\* arguments the runner builds never hold -k
runner_repobo(full, keep) ==
    /\ run.at # "cleanup"
    /\ do_backup(full, FALSE)
    /\ LET result == os_system(ret'.result) IN
        run' = [at |-> IF failed(result) THEN "returned" ELSE "cleanup",
                keep |-> keep, repobo |-> ret'.result, result |-> result]
    /\ UNCHANGED pc

backup_main(full, keep) == runner_repobo(full, keep)

\* the location is the snapshot directory, the backup is full
snapshot_main(keep) == runner_repobo(TRUE, keep)

\* cleanup(backup_location, keep), the last statement of backup_main and of snapshot_main
runner_cleanup ==
    /\ run.at = "cleanup"
    /\ cleanup(run.keep)
    /\ run' = [run EXCEPT !.at = "returned"]
    /\ UNCHANGED pc

\* bin/restore: os.system(repobo --recover -o blobs -r backup_location [-D date]),
\* the destination being the blobstorage itself
restore_main(date) ==
    /\ run.at # "cleanup"
    /\ do_recover(date, TRUE, blob)
    /\ blob' = output'
    /\ UNCHANGED <<pc, run>>

-----------------------------------------------------------------------------
(* main: the filestorage step (repozo), then the blob step *)

\* what repozorunner returns: the exit status of repozo
RepozoResults == {0, 1}

\* the script ends before the blob step
main_ends(how) ==
    /\ ret' = Ret("main", how)
    /\ UNCHANGED <<now, blob, repo, output, taken, pc, run>>

\* result is what repozorunner.backup_main returned; it is not looked at when only_blobs is set
main_backup_main(only_blobs, backup_blobs, blob_storage_source, result, full, keep) ==
    \* if result and backup_blobs: logger.error("Halting execution ..."), and on it goes
    IF ~backup_blobs THEN main_ends("return")
    ELSE IF ~blob_storage_source THEN main_ends("exit 1")
    ELSE backup_main(full, keep)

\* as main_backup_main, up to the call of repoborunner.backup_main, whose
\* argument full is a name snapshot_main does not have
main_snapshot_main(only_blobs, backup_blobs, blob_storage_source, result, keep) ==
    IF ~backup_blobs THEN main_ends("return")
    ELSE IF ~blob_storage_source THEN main_ends("exit 1")
    ELSE main_ends("NameError")

\* ask is the answer to "Are you sure?"
main_restore_main(ask, only_blobs, backup_blobs, blob_storage_source, result, date) ==
    IF ~ask THEN main_ends("exit 0")
    ELSE IF ~only_blobs /\ failed(result) /\ backup_blobs THEN main_ends("exit 1")
    ELSE IF ~backup_blobs THEN main_ends("return")
    ELSE IF ~blob_storage_source THEN main_ends("exit 1")
    ELSE restore_main(date)

-----------------------------------------------------------------------------
(* Specifications *)

Seconds == 0..second(MaxNow)

Stamps == {gen_filename(t) : t \in 0..MaxNow}

\* -D yyyy-mm-dd[-hh[-mm[-ss]]]: full timestamps and truncated ones
Dates == {NoDate} \cup Stamps \cup {<<s[1]>> : s \in Stamps}

Init ==
    /\ now = 0
    /\ blob \in Trees
    /\ repo = {}
    /\ output = {}
    /\ ret = Ret("init", "init")
    /\ taken = <<>>
    /\ pc = NoProcess
    /\ run = NotRunning

\* one invocation of repobo or of cleanup, run from start to end
Backup ==
    /\ \E full \in BOOLEAN, killold \in BOOLEAN : do_backup(full, killold)
    /\ UNCHANGED <<pc, run>>

BackupKeepOld ==
    /\ \E full \in BOOLEAN : do_backup(full, FALSE)
    /\ UNCHANGED <<pc, run>>

Recover ==
    /\ \E date \in Dates, out \in BOOLEAN, dir \in Trees : do_recover(date, out, dir)
    /\ UNCHANGED <<blob, pc, run>>

Cleanup ==
    /\ \E keep \in 0..MaxKeep : cleanup(keep)
    /\ UNCHANGED <<pc, run>>

Next == Tick \/ WriteBlobs \/ Backup \/ Cleanup

Spec == Init /\ [][Next]_vars

\* backups that keep every archive, and restores; taken records the source at each backup
InitKeepAll ==
    /\ now = 0
    /\ blob \in Trees
    /\ repo = {}
    /\ output = {}
    /\ ret = Ret("init", "init")
    /\ taken = [s \in Seconds |-> {}]
    /\ pc = NoProcess
    /\ run = NotRunning

NextKeepAll == TickKeepAll \/ WriteBlobs \/ BackupKeepOld \/ Recover

SpecKeepAll == InitKeepAll /\ [][NextKeepAll]_vars

\* any repository directory: archives named for any second, with any modification
\* times, as copying, touching or deleting files by hand leaves them
AnyStamps == {gmtime(sec) : sec \in 0..MaxStamp}

AnyDates == {NoDate} \cup AnyStamps \cup {<<s[1]>> : s \in AnyStamps}

AnyNames == AnyStamps \X {FULL, DELTA}

AnyFile(name, mtime) ==
    [root |-> name[1], ext |-> name[2], mtime |-> mtime,
     names |-> IF name[2] = FULL THEN {<<"d">>} ELSE {<<"d", "x">>}]

InitAny ==
    /\ now = MaxNow
    /\ blob = {}
    /\ \E listing \in SUBSET AnyNames :
        /\ Cardinality(listing) <= MaxFiles
        /\ \E getmtime \in [listing -> 0..MaxMtime] :
            repo = {AnyFile(name, getmtime[name]) : name \in listing}
    /\ output = {}
    /\ ret = Ret("init", "init")
    /\ taken = <<>>
    /\ pc = NoProcess
    /\ run = NotRunning

RecoverAny ==
    /\ \E date \in AnyDates : do_recover(date, TRUE, {})
    /\ UNCHANGED <<blob, pc, run>>

NextAny == Cleanup \/ RecoverAny

SpecAny == InitAny /\ [][NextAny]_vars

\* any directory: archives, and files that are no archives by their names: a
\* name without the six fields that ends in '.blobs', and a file of another kind
OtherNames == {<<SubSeq(gmtime(0), 1, 1), FULL>>, <<gmtime(0), ".dat">>}

InitDir ==
    /\ now = MaxNow
    /\ blob = {}
    /\ \E listing \in SUBSET (AnyNames \cup OtherNames) :
        /\ Cardinality(listing) <= MaxFiles
        /\ \E getmtime \in [listing -> 0..MaxMtime] :
            repo = {AnyFile(name, getmtime[name]) : name \in listing}
    /\ output = {}
    /\ ret = Ret("init", "init")
    /\ taken = <<>>
    /\ pc = NoProcess
    /\ run = NotRunning

NextDir == Cleanup

SpecDir == InitDir /\ [][NextDir]_vars

\* every invocation: backups that keep or kill the old archives, restores, cleanup
NextAll == TickKeepAll \/ WriteBlobs \/ Backup \/ Recover \/ Cleanup

SpecAll == Init /\ [][NextAll]_vars

\* the runner: repobo, then cleanup
BackupMain == \E full \in BOOLEAN, keep \in 0..MaxKeep : backup_main(full, keep)

SnapshotMain == \E keep \in 0..MaxKeep : snapshot_main(keep)

NextRunner == TickKeepAll \/ WriteBlobs \/ BackupMain \/ SnapshotMain \/ runner_cleanup

SpecRunner == Init /\ [][NextRunner]_vars

\* the scripts bin/backup, bin/snapshotbackup and bin/restore
MainBackup ==
    \E only_blobs \in BOOLEAN, backup_blobs \in BOOLEAN, blob_storage_source \in BOOLEAN,
       result \in RepozoResults, full \in BOOLEAN, keep \in 0..MaxKeep :
        main_backup_main(only_blobs, backup_blobs, blob_storage_source, result, full, keep)

MainSnapshot ==
    \E only_blobs \in BOOLEAN, backup_blobs \in BOOLEAN, blob_storage_source \in BOOLEAN,
       result \in RepozoResults, keep \in 0..MaxKeep :
        main_snapshot_main(only_blobs, backup_blobs, blob_storage_source, result, keep)

MainRestore ==
    \E ask \in BOOLEAN, only_blobs \in BOOLEAN, backup_blobs \in BOOLEAN,
       blob_storage_source \in BOOLEAN, result \in RepozoResults, date \in Dates :
        main_restore_main(ask, only_blobs, backup_blobs, blob_storage_source, result, date)

\* within one second: what the scripts do does not depend on the time
NextMain == WriteBlobs \/ MainBackup \/ MainSnapshot \/ MainRestore \/ runner_cleanup

SpecMain == Init /\ [][NextMain]_vars

\* restores from any repository directory, as of any date, with or without a
\* destination, whatever the destination holds (a restore reads no modification time)
InitRestore ==
    /\ now = MaxNow
    /\ blob = {}
    /\ \E listing \in SUBSET AnyNames :
        /\ Cardinality(listing) <= MaxFiles
        /\ repo = {AnyFile(name, 0) : name \in listing}
    /\ output = {}
    /\ ret = Ret("init", "init")
    /\ taken = <<>>
    /\ pc = NoProcess
    /\ run = NotRunning

RecoverInto ==
    /\ \E date \in AnyDates, out \in BOOLEAN, dir \in Trees : do_recover(date, out, dir)
    /\ UNCHANGED <<blob, pc, run>>

NextRestore == RecoverInto

SpecRestore == InitRestore /\ [][NextRestore]_vars

\* two repobo processes, each run once, on a repository that is empty or holds
\* the Full archive of an earlier backup
EarlierFull(tree) == [root |-> gen_filename(0), ext |-> FULL, mtime |-> 0, names |-> tree]

InitRace ==
    /\ now = 0
    /\ blob \in Trees
    /\ repo \in {{}} \cup {{EarlierFull(tree)} : tree \in Trees}
    /\ output = {}
    /\ ret = Ret("init", "init")
    /\ taken = <<>>
    /\ pc = NoProcess
    /\ run = NotRunning

Start == \E p \in Procs, full \in BOOLEAN, killold \in BOOLEAN : repobo_do_backup(p, full, killold)

Exists == \E p \in Procs : repobo_exists(p)

Open == \E p \in Procs : repobo_tarfile_open(p)

KillOld == \E p \in Procs : repobo_delete_old_backups(p)

NextRace == Tick \/ Start \/ Exists \/ Open \/ KillOld

SpecRace == InitRace /\ [][NextRace]_vars

-----------------------------------------------------------------------------
(* The backup planner *)

\* the chain do_backup resolves, the snapshot of the source and the state the chain stands for
Chain == find_files(repo, NoDate, now)
Current == listd(blob, <<>>)
Reconstructed == concat(Chain)

Added == repo' \ repo

WritesOne(ext) ==
    /\ Cardinality(Added) = 1
    /\ \A f \in Added : f.root = gen_filename(now) /\ f.ext = ext

PlannedBackup == (\E killold \in BOOLEAN : do_backup(FALSE, killold)) /\ Chain # <<>>

\* C1: a backup without force-full on a non-empty chain writes nothing when
\* the source equals the reconstructed state, a Full archive when the
\* reconstructed state is not a subset of the source, and otherwise exactly one
\* Incremental archive whose members are the source minus the reconstructed
\* state (a backup that ends with WouldOverwriteFiles, the name of the archive
\* being taken, writes nothing).
C1_Planner ==
    [][PlannedBackup =>
        IF Current = Reconstructed THEN repo' = repo /\ ret'.result = "nothing"
        ELSE IF ~(Reconstructed \subseteq Current)
        THEN IF exists(repo, gen_filename(now), FULL)
             THEN repo' = repo /\ ret'.result = "WouldOverwriteFiles"
             ELSE WritesOne(FULL)
        ELSE IF exists(repo, gen_filename(now), DELTA)
             THEN repo' = repo /\ ret'.result = "WouldOverwriteFiles"
             ELSE /\ WritesOne(DELTA)
                  /\ \A f \in Added : f.names = Current \ Reconstructed]_vars

\* the file name order puts a Full archive before the Incremental archive of the
\* same second, whichever was written first
Misordered(files) ==
    \E f, g \in files : f.root = g.root /\ f.ext = FULL /\ g.ext = DELTA /\ g.mtime <= f.mtime

\* C1 holds of the backups on a repository without such a pair
C1_PlannerInOrder ==
    [][PlannedBackup /\ ~Misordered(repo) =>
        IF Current = Reconstructed THEN repo' = repo /\ ret'.result = "nothing"
        ELSE IF ~(Reconstructed \subseteq Current)
        THEN IF exists(repo, gen_filename(now), FULL)
             THEN repo' = repo /\ ret'.result = "WouldOverwriteFiles"
             ELSE WritesOne(FULL)
        ELSE IF exists(repo, gen_filename(now), DELTA)
             THEN repo' = repo /\ ret'.result = "WouldOverwriteFiles"
             ELSE /\ WritesOne(DELTA)
                  /\ \A f \in Added : f.names = Current \ Reconstructed]_vars

-----------------------------------------------------------------------------
(* Round trip *)

\* a restore as of now into an empty directory, straight after a backup that
\* ended without error (time may have passed, the source has not changed)
RestoreAfterBackup ==
    /\ ret.op = "backup" /\ ret.result \in BackupOk
    /\ do_recover(NoDate, TRUE, {})

\* C2 as stated: after a backup of source tree S that ended without error, a
\* restore as of now into an empty destination leaves the destination with
\* the path set of S.
C2_RoundTrip == [][RestoreAfterBackup => output' = listd(blob, <<>>)]_vars

\* C2 holds of the restores from a repository without a misordered pair
C2_RoundTripInOrder ==
    [][RestoreAfterBackup /\ ~Misordered(repo) => output' = listd(blob, <<>>)]_vars

-----------------------------------------------------------------------------
(* Point-in-time restore *)

BackedUpBy(sec) == {u \in Seconds : u <= sec /\ taken[u] # {}}

\* the source tree as the last backup run at or before second sec found it
AsOf(sec) ==
    LET last == CHOOSE u \in BackedUpBy(sec) : \A v \in BackedUpBy(sec) : v <= u
    IN CHOOSE tree \in taken[last] : TRUE

RestoreAsOf(sec) ==
    /\ BackedUpBy(sec) # {}
    /\ \/ do_recover(gmtime(sec), TRUE, {})
       \/ sec = second(now) /\ do_recover(NoDate, TRUE, {})

\* C3 as stated: with backups only (nothing ever deleted), a restore as of a
\* time t at or after the first backup, into an empty destination, yields the
\* source tree as it was at the most recent backup run at or before t.
C3_PointInTime ==
    [][\A sec \in Seconds : RestoreAsOf(sec) => output' = AsOf(sec)]_vars

\* C3 holds of the restores from a repository without a misordered pair
C3_PointInTimeInOrder ==
    [][\A sec \in Seconds : RestoreAsOf(sec) /\ ~Misordered(repo) => output' = AsOf(sec)]_vars

-----------------------------------------------------------------------------
(* The chain *)

\* a date given short stands for the time with the missing fields zero
Padded(date) == date \o [i \in 1..(2 - Len(date)) |-> 0]

Target(date) == IF date = NoDate THEN gen_filename(now) ELSE Padded(date)

Ascending(chain) ==
    \A i \in 1..Len(chain) : \A j \in 1..Len(chain) :
        i < j => StrLeq(chain[i].root, chain[j].root)

NotAfter(chain, date) == \A i \in 1..Len(chain) : StrLeq(chain[i].root, Target(date))

OnlyDeltasAfterFirst(chain) == \A i \in 2..Len(chain) : chain[i].ext = DELTA

\* C4 as stated: whatever the repository holds and whatever the target time,
\* the chain is empty, or is one Full archive followed only by Incremental
\* archives, ascending in time, none later than the target.
C4_AsStated ==
    \A date \in AnyDates :
        LET chain == find_files(repo, date, now)
        IN chain # <<>> =>
            /\ chain[1].ext = FULL
            /\ OnlyDeltasAfterFirst(chain)
            /\ Ascending(chain)
            /\ NotAfter(chain, date)

\* C4, amended: the chain is empty, or ascending in time with no element later
\* than the target and no Full archive after its first element; its first
\* element is a Full archive unless the repository holds no Full archive at or
\* before that element, and then the chain is Incremental archives only.
C4_Chain ==
    \A date \in AnyDates :
        LET chain == find_files(repo, date, now)
        IN chain # <<>> =>
            /\ \/ chain[1].ext = FULL
               \/ ~\E f \in repo : f.ext = FULL /\ StrLeq(f.root, chain[1].root)
            /\ OnlyDeltasAfterFirst(chain)
            /\ Ascending(chain)
            /\ NotAfter(chain, date)

\* a restore has resolved a chain of a Full and an Incremental archive that
\* stops short of an older Full archive
C4_Witness ==
    /\ ret = Ret("recover", "recovered")
    /\ \E date \in AnyDates :
        LET chain == find_files(repo, date, now)
        IN /\ Len(chain) >= 2
           /\ chain[1].ext = FULL
           /\ \E f \in repo : f.ext = FULL /\ StrLess(f.root, chain[1].root)
           /\ output = concat(chain)

-----------------------------------------------------------------------------
(* The restorer *)

\* C5: after a restore over any destination, with a non-empty chain, the
\* destination holds exactly the member names of the chain's archives: every
\* other entry it held, file or directory, is deleted.
C5_Restored ==
    [][\A date \in Dates, dir \in Trees :
        do_recover(date, TRUE, dir) /\ find_files(repo, date, now) # <<>>
            => /\ ret'.result = "recovered"
               /\ output' = concat(find_files(repo, date, now))]_vars

-----------------------------------------------------------------------------
(* Retention *)

Fulls(files) == {f \in files : f.ext = FULL}

Min(a, b) == IF a < b THEN a ELSE b

\* the modification time of the keep-th newest of the full backups
KthNewest(fulls, keep) ==
    CHOOSE m \in {f.mtime : f \in fulls} :
        /\ Cardinality({f \in fulls : f.mtime > m}) < keep
        /\ Cardinality({f \in fulls : f.mtime >= m}) >= keep

DistinctMtimes(files) == \A f, g \in files : f.mtime = g.mtime => f = g

C7_Cutoff ==
    [][\A keep \in 1..MaxKeep :
        cleanup(keep) /\ Cardinality(Fulls(repo)) > keep =>
            LET cutoff == KthNewest(Fulls(repo), keep)
            IN /\ repo \ repo' = {f \in repo : f.mtime < cutoff}
               /\ repo' = {f \in repo : f.mtime >= cutoff}]_vars

\* cleanup has removed files and an Incremental archive modified at the cutoff is still there
C7_Witness ==
    /\ ret = Ret("cleanup", "removed")
    /\ \E f \in repo :
        /\ f.ext = DELTA
        /\ \E g \in Fulls(repo) : g.mtime = f.mtime
        /\ \A h \in Fulls(repo) : h.mtime >= f.mtime

-----------------------------------------------------------------------------
(* Backups in a row *)

\* a backup without force-full straight after a backup that ended without
\* error (time may have passed, the source has not changed)
BackupAgain ==
    /\ ret.op = "backup" /\ ret.result \in BackupOk
    /\ \E killold \in BOOLEAN : do_backup(FALSE, killold)

\* C8: a backup run after a backup, the source unchanged in between, writes
\* no archive and leaves the repository as it is.
C8_Idempotent == [][BackupAgain => repo' = repo]_vars

\* C8 holds of the backups on a repository without a misordered pair
C8_IdempotentInOrder ==
    [][BackupAgain /\ ~Misordered(repo) => repo' = repo /\ ret'.result = "nothing"]_vars

\* C9: a backup adds at most one file to the repository: none when there is
\* nothing to do, exactly one on every other path that ends without error.
C9_AtMostOne ==
    [][\A full \in BOOLEAN, killold \in BOOLEAN : do_backup(full, killold) =>
        LET noop == ~full /\ Chain # <<>> /\ Current = Reconstructed
        IN /\ Cardinality(Added) <= 1
           /\ noop => Added = {}
           /\ ~noop /\ ret'.result # "WouldOverwriteFiles" => Cardinality(Added) = 1]_vars

\* a backup found the source as the chain has it and wrote nothing
C9_Witness ==
    /\ ret = Ret("backup", "nothing")
    /\ repo # {}
    /\ Current = Reconstructed

\* the kind of archive the planner goes on to write
Planned(full) ==
    IF full \/ Chain = <<>> THEN {FULL}
    ELSE IF Current = Reconstructed THEN {}
    ELSE IF Reconstructed \subseteq Current THEN {DELTA}
    ELSE {FULL}

\* C10: when the file name generated for the new archive is already in the
\* repository the backup fails with WouldOverwriteFiles and the repository is
\* as it was.
C10_WouldOverwrite ==
    [][\A full \in BOOLEAN, killold \in BOOLEAN :
        /\ do_backup(full, killold)
        /\ \E ext \in Planned(full) : \E f \in repo : f.root = gen_filename(now) /\ f.ext = ext
        => repo' = repo /\ ret'.result = "WouldOverwriteFiles"]_vars

\* a backup has failed on the name of an archive written earlier in the second
C10_Witness ==
    /\ ret = Ret("backup", "WouldOverwriteFiles")
    /\ \E f \in repo : f.root = gen_filename(now) /\ f.mtime < now
-----------------------------------------------------------------------------
(* Two backups at once *)

\* C11: when two backups run at once and generate the same archive name, in
\* every interleaving of their existence checks and their writes at most one of
\* them writes the archive and the other fails with WouldOverwriteFiles: no
\* write lands on the file the other has written.
C11_NoOverwrite ==
    [][\A p \in Procs : repobo_tarfile_open(p) =>
        ~\E q \in Procs \ {p} :
            /\ pc[q].result \in {"full", "incremental"}
            /\ pc[q].dest = pc[p].dest /\ pc[q].ext = pc[p].ext]_vars
-----------------------------------------------------------------------------
(* Restores that do nothing *)

\* C12: when the chain resolved for a restore is empty (empty repository, or
\* no archive at or before the date asked for) do_recover raises NoFiles and
\* the destination is as it was: nothing extracted into it, nothing deleted
\* from it.
C12_NoFiles ==
    [][\A date \in AnyDates :
        find_files(repo, date, now) = <<>> =>
            \A out \in BOOLEAN, dir \in Trees :
                do_recover(date, out, dir)
                    => ret'.result = "NoFiles" /\ output' = dir /\ repo' = repo]_vars

\* a restore as of a date before every archive of the repository has raised
\* NoFiles, and the destination still holds its entries
C12_Witness ==
    /\ ret = Ret("recover", "NoFiles")
    /\ repo # {}
    /\ output = Paths

\* C13: whatever the repository holds, an empty repository included, a restore
\* without a destination returns normally and does nothing: no error, nothing
\* extracted, nothing deleted.
C13_NoOutput ==
    [][\A date \in AnyDates, dir \in Trees :
        do_recover(date, FALSE, dir) => ret'.result = "no_output" /\ output' = dir]_vars
-----------------------------------------------------------------------------
(* Archives are written once *)

\* C14 as stated: every archive that is in the repository before a backup or
\* a restore is there afterwards, with the same content; only cleanup ever
\* removes an archive.
C14_WriteOnce == [][repo \subseteq repo' \/ \E keep \in 0..MaxKeep : cleanup(keep)]_vars

KillOldFull == (\E full \in BOOLEAN : do_backup(full, TRUE)) /\ ret'.result = "full"

\* C14, amended: every archive that is in the repository before a restore or
\* a backup without kill-old-on-full is there afterwards, with the same
\* content; an archive is removed only by cleanup or by a backup with
\* kill-old-on-full that writes a Full archive.
C14_Archives ==
    [][/\ repo \subseteq repo' \/ (\E keep \in 0..MaxKeep : cleanup(keep)) \/ KillOldFull
       /\ ~(repo \subseteq repo') =>
            /\ ~\E full \in BOOLEAN : do_backup(full, FALSE)
            /\ ~\E date \in Dates, out \in BOOLEAN, dir \in Trees : do_recover(date, out, dir)]_vars

\* a restore has run on a repository of two archives, the older one written in
\* an earlier second
C14_Witness ==
    /\ ret = Ret("recover", "recovered")
    /\ \E f, g \in repo : f.mtime < g.mtime /\ g.root = gen_filename(now) /\ f.root # g.root
-----------------------------------------------------------------------------
(* Files that are no archives *)

Archives(files) == {f \in files : is_data_file(f)}

\* what retention as specified leaves of a set of archives
Kept(files, keep) ==
    IF keep = 0 \/ Cardinality(Fulls(files)) <= keep THEN files
    ELSE {f \in files : f.mtime >= KthNewest(Fulls(files), keep)}

\* C15: cleanup ignores the files whose names do not match the archive naming
\* predicate: they do not count as Full archives toward keep, they do not move
\* the cutoff, and cleanup never deletes them, whatever their modification
\* time (cleanup does to the archives what it would do without those files,
\* and leaves those files).
C15_OthersIgnored ==
    [][\A keep \in 0..MaxKeep : cleanup(keep) =>
        repo' = (repo \ Archives(repo)) \cup Kept(Archives(repo), keep)]_vars
-----------------------------------------------------------------------------
(* Retention that removes nothing *)

\* C16: cleanup leaves the repository directory as it is, deleting nothing,
\* whenever keep = 0 or the number of Full archives is at most keep, the empty
\* repository included.
C16_NoOp ==
    [][\A keep \in 0..MaxKeep :
        cleanup(keep) /\ (keep = 0 \/ Cardinality(Fulls(repo)) <= keep) => repo' = repo]_vars

\* cleanup has kept everything in a repository of MaxKeep Full archives and an
\* Incremental archive older than both
C16_Witness ==
    /\ ret = Ret("cleanup", "kept")
    /\ Cardinality(Fulls(repo)) = MaxKeep
    /\ \E f \in repo : f.ext = DELTA /\ \A g \in Fulls(repo) : f.mtime < g.mtime
-----------------------------------------------------------------------------
(* Chains of two target times *)

IsPrefix(s, t) == Len(s) <= Len(t) /\ SubSeq(t, 1, Len(s)) = s

resolve(t) == find_files(repo, t, now)

\* C17 as stated: for target times t1 <= t2 with no Full archive whose
\* timestamp is strictly between t1 and t2, the chain for t1 is a prefix of the
\* chain for t2.
C17_AsStated ==
    \A t1 \in AnyStamps, t2 \in AnyStamps :
        /\ StrLeq(t1, t2)
        /\ ~\E f \in Fulls(repo) : StrLess(t1, f.root) /\ StrLess(f.root, t2)
        => IsPrefix(resolve(t1), resolve(t2))

\* C17, amended: for target times t1 <= t2 with no Full archive whose
\* timestamp is after t1 and at or before t2, the chain for t1 is a prefix of
\* the chain for t2.
C17_Prefix ==
    \A t1 \in AnyStamps, t2 \in AnyStamps :
        /\ StrLeq(t1, t2)
        /\ ~\E f \in Fulls(repo) : StrLess(t1, f.root) /\ StrLeq(f.root, t2)
        => IsPrefix(resolve(t1), resolve(t2))

\* a restore has run on the chain of a later target time, which is the chain of
\* an earlier target time and more
C17_Witness ==
    /\ ret = Ret("recover", "recovered")
    /\ \E t1 \in AnyStamps, t2 \in AnyStamps :
        /\ StrLess(t1, t2)
        /\ ~\E f \in Fulls(repo) : StrLess(t1, f.root) /\ StrLeq(f.root, t2)
        /\ resolve(t1) # <<>>
        /\ Len(resolve(t2)) > Len(resolve(t1))
        /\ output = concat(resolve(t2))
-----------------------------------------------------------------------------
(* Full backups *)

\* C18 as stated: whenever force-full is set or the chain is empty, do_backup
\* writes a Full archive, whether or not the source has changed, and every
\* Full archive written has as members the complete recursive snapshot of the
\* source, empty directories included.
C18_AsStated ==
    [][\A full \in BOOLEAN, killold \in BOOLEAN : do_backup(full, killold) =>
        /\ full \/ Chain = <<>> => WritesOne(FULL)
        /\ \A f \in Added : f.ext = FULL => f.names = Current]_vars

\* C18, amended: whenever force-full is set or the chain is empty, do_backup
\* writes a Full archive, whether or not the source has changed, unless a Full
\* archive named for the current second is already there, and then it fails
\* with WouldOverwriteFiles and writes nothing; every Full archive written has
\* as members the complete recursive snapshot of the source.
C18_Full ==
    [][\A full \in BOOLEAN, killold \in BOOLEAN : do_backup(full, killold) =>
        /\ full \/ Chain = <<>> =>
            IF exists(repo, gen_filename(now), FULL)
            THEN repo' = repo /\ ret'.result = "WouldOverwriteFiles"
            ELSE WritesOne(FULL) /\ ret'.result = "full"
        /\ \A f \in Added : f.ext = FULL => f.names = Current]_vars

\* a Full archive of a source with a directory and an entry in it has
\* been written though the Full archive before it has the same members
C18_Witness ==
    /\ ret = Ret("backup", "full")
    /\ Current = Paths
    /\ \E f, g \in Fulls(repo) :
        /\ g.root = gen_filename(now) /\ g.mtime = now /\ g.names = Current
        /\ f.root # g.root /\ f.names = Current
-----------------------------------------------------------------------------
(* Retention after the backup *)

\* C19: in backup_main and snapshot_main cleanup runs only after the backup
\* command has returned success; when the backup command fails its result is
\* returned and retention deletes no archive in that invocation.
C19_CleanupAfterSuccess ==
    [][/\ (\E keep \in 0..MaxKeep : cleanup(keep)) =>
            run.at = "cleanup" /\ run.repobo \in BackupOk /\ cleanup(run.keep)
       /\ \A full \in BOOLEAN, keep \in 0..MaxKeep :
            runner_repobo(full, keep) /\ ret'.result = "WouldOverwriteFiles" =>
                run'.at = "returned" /\ run'.result # 0 /\ repo' = repo]_vars

\* the runner has returned the failure of repobo and has left more Full
\* archives than keep
C19_Witness ==
    /\ run.at = "returned" /\ run.result # 0
    /\ ret = Ret("backup", "WouldOverwriteFiles")
    /\ run.keep >= 1
    /\ Cardinality(Fulls(repo)) > run.keep
    /\ DistinctMtimes(Fulls(repo))
-----------------------------------------------------------------------------
(* Kill old on full *)

\* C20: when a Full archive is written with kill-old-on-full set, every Full
\* and Incremental archive written before is removed: after the backup the
\* repository holds no archive but the Full archive just written.
C20_KillOld ==
    [][\A full \in BOOLEAN : do_backup(full, TRUE) /\ ret'.result = "full" =>
        /\ Cardinality(repo') = 1
        /\ \A f \in repo' :
            f.root = gen_filename(now) /\ f.ext = FULL /\ f.mtime = now /\ f.names = Current]_vars

\* a Full archive has been written in a later second than the first and is
\* the only archive of the repository
C20_Witness ==
    /\ ret = Ret("backup", "full")
    /\ second(now) >= 1
    /\ Cardinality(repo) = 1
    /\ \A f \in repo : f.root = gen_filename(now) /\ f.ext = FULL /\ f.mtime = now
-----------------------------------------------------------------------------
(* The filestorage step fails *)

\* the blob step has run: repobo has been invoked to back up or to recover
BlobStep == ret'.op \in {"backup", "recover"}

\* C21: in main.backup_main, main.snapshot_main and main.restore_main, when
\* the filestorage step returns a failure and blobs are handled, execution
\* halts and the blob step is not invoked.
C21_Halts ==
    [][\A blob_storage_source \in BOOLEAN, full \in BOOLEAN, keep \in 0..MaxKeep, date \in Dates :
        \/ main_backup_main(FALSE, TRUE, blob_storage_source, 1, full, keep)
        \/ main_snapshot_main(FALSE, TRUE, blob_storage_source, 1, keep)
        \/ main_restore_main(TRUE, FALSE, TRUE, blob_storage_source, 1, date)
        => ~BlobStep /\ repo' = repo /\ blob' = blob]_vars
-----------------------------------------------------------------------------
(* Dates given short *)

\* C22: for a date given short (some of its last fields left out) find_files
\* returns the chain it returns for that date padded with zero fields; an
\* archive whose timestamp is the padded date is in the chain.
C22_Truncated ==
    \A date \in AnyDates \ {NoDate} :
        find_files(repo, date, now) = find_files(repo, Padded(date), now)
-----------------------------------------------------------------------------
(* File name order and creation order *)

\* C23: with a clock that never goes back, several backups in one second
\* included, an archive created later sorts after every archive created
\* earlier in the file name order of find_files, so the chain for now lists the
\* archives in the order of their creation and has no Incremental archive
\* after a Full archive written later than it.
C23_CreationOrder ==
    /\ \A f, g \in repo : f.mtime < g.mtime => NameLess(f, g)
    /\ \A i, j \in 1..Len(Chain) : i < j => Chain[i].mtime <= Chain[j].mtime
-----------------------------------------------------------------------------
(* Retention and the chain for now *)

\* the order of the modification times agrees with the order of the file names
Agrees(files) == \A f, g \in files : NameLess(f, g) => f.mtime <= g.mtime

\* C24: on a repository built by backups in which the order of the
\* modification times agrees with the order of the file names, cleanup with
\* keep >= 1 does not change the chain find_files returns for now: the newest
\* Full archive and the Incremental archives after it survive, and a restore
\* as of now gives the same before and after.
C24_ChainKept ==
    [][\A keep \in 1..MaxKeep : cleanup(keep) /\ Agrees(repo) =>
        /\ find_files(repo', NoDate, now) = Chain
        /\ Range(Chain) \subseteq repo']_vars

\* cleanup has removed archives and the chain for now is a Full archive and
\* an Incremental archive after it
C24_Witness ==
    /\ ret = Ret("cleanup", "removed")
    /\ Agrees(repo)
    /\ Len(Chain) >= 2
    /\ Chain[1].ext = FULL
-----------------------------------------------------------------------------
(* Incremental archives without a Full archive *)

\* C25: in every repository reached from the empty one by backups, with or
\* without kill-old-on-full, and cleanups, modification times being creation
\* times, every Incremental archive has a Full archive before it in the order
\* of the file names, and find_files never returns a chain that starts with an
\* Incremental archive.
C25_NoOrphan ==
    /\ \A g \in repo : g.ext = DELTA => \E f \in Fulls(repo) : NameLess(f, g)
    /\ \A date \in Dates :
        LET chain == find_files(repo, date, now)
        IN chain # <<>> => chain[1].ext = FULL

\* cleanup has removed a Full archive and an Incremental archive written
\* after the Full archive that is left is still there
C25_Witness ==
    /\ ret = Ret("cleanup", "removed")
    /\ Cardinality(Fulls(repo)) = 1
    /\ \E g \in repo : g.ext = DELTA /\ \A f \in Fulls(repo) : f.mtime < g.mtime
====
